---- MODULE Spec2Model ----
(***************************************************************************)
(* Rate-limited batch orchestration of services/ai_utils_parallel.py:      *)
(* the credential / egress pools, the batch planner, the semaphore-bounded *)
(* dispatcher with its retry loop, and the result aggregator.              *)
(*                                                                         *)
(* The program runs on one asyncio event loop: a coroutine is interrupted  *)
(* only at an await that really suspends (semaphore wait, asyncio.sleep,   *)
(* the HTTP request).  Each action below is the code between two such      *)
(* suspension points.                                                      *)
(***************************************************************************)
EXTENDS Integers, Sequences, FiniteSets, TLC

\* ---------------------------------------------------------------- bounds
MaxItems      == 3   \* longest input list of one orchestrated call
MaxBatchSize  == 2   \* largest batch_size argument
MaxConcurrent == 2   \* largest max_concurrent argument
MaxKeys       == 3   \* most valid API keys found at start-up
MaxProxies    == 2   \* most proxies found at start-up
MaxTasks      == 2   \* concurrently running pool users (pool specification)
MaxSelections == 5   \* pool selections followed (pool specification)
MaxStartupItems == 2 \* longest input list (start-up specification)
MaxPlanItems  == 12  \* longest input list (planner specification)
MaxPlanBatch  == 4   \* largest batch_size (planner specification)
MaxCalls      == 2   \* scoring calls made on one pair (scoring specification)
MaxDaysPassed == 1   \* days that pass meanwhile (scoring specification)
MaxYears      == 30  \* most years of experience (calculator specification)
MaxMinYears   == 50  \* largest minimum of experience (calculator specification)
MaxMaxYears   == 12  \* largest maximum of experience (calculator specification)
MaxRequired   == 50  \* longest list of required skills (calculator specification)
MaxExtendedItems == 6 \* longest input list (entry-point specification)

\* ------------------------------------------------------ program constants
RetryCount  == 3     \* retry_count default of parse_resume_batch_with_deepseek
BackoffUnit == 10    \* wait_time = (attempt + 1) * 10

NoProxy == 0         \* get_next_proxy() returning None
NoKey   == 0         \* next() on an empty cycle yields nothing

VARIABLES
    phase,          \* "loading", "fatal", "ready", "running", "done";
                    \* "direct", "raised" on the direct route of the entry
                    \* function; "returned", "scored", "part" for the scorers
    nKeys,          \* len(API_KEYS) after the filter of line 28
    nProxies,       \* len(PROXIES) after the loop of lines 33-40
    keyCursor,      \* position of api_key_pool = cycle(API_KEYS)
    proxyCursor,    \* position of proxy_pool  = cycle(PROXIES)
    keyHist,        \* selections made on api_key_pool, oldest first
    proxyHist,      \* selections made on proxy_pool, oldest first
    taskPc,         \* pool specification: position of each pool user
    taskDraws,      \* pool specification: selections made by each pool user
    workload,       \* "parse" or "match"
    nItems,         \* len(pdf_texts) / len(candidates_data)
    batch_size,
    max_concurrent,
    batches,        \* the planned batches: sequences of 1-based input positions
    semaphore,      \* value of asyncio.Semaphore(max_concurrent)
    status,         \* per batch: Queued, Dispatched, Throttled, Succeeded, Failed
    inflight,       \* per batch: a request is issued and not yet answered
    attempt,        \* per batch: loop variable of `for attempt in range(retry_count)`
    requests,       \* per batch: number of client.post calls made
    jitters,        \* per batch: number of jitter sleeps (line 127) begun
    waits,          \* per batch: the backoff delays slept, oldest first
    outcome,        \* per batch: the last response received ("none" before)
    apiKey,         \* per batch: api_key drawn for it
    proxy,          \* per batch: proxy drawn for it
    ret,            \* per batch: value its task returned to gather
    doneOrder,      \* the batches whose task has returned, in order of return
    errorLog,       \* number of "error in batch" lines logged by the wrappers
    result,         \* value returned by the orchestrating call
    summary,        \* the final "processed k of n" log line
    candidates_data,\* match_candidate_to_vacancy_batch: the ids of its batch
    batch_results,  \* match_candidate_to_vacancy_batch: the parsed response
    output,         \* match_candidate_to_vacancy_batch: the list it returns
    resume,         \* the candidate being scored
    vacancy,        \* the criteria it is scored against
    today,          \* the date date.today() returns
    scored,         \* the results of the scoring calls made on them, in order
    part            \* one call of a subscore calculator: name, arguments, result

vars == << phase, nKeys, nProxies, keyCursor, proxyCursor, keyHist, proxyHist,
           taskPc, taskDraws, workload, nItems, batch_size, max_concurrent,
           batches, semaphore, status, inflight, attempt, requests, jitters,
           waits, outcome, apiKey, proxy, ret, doneOrder, errorLog, result,
           summary, candidates_data, batch_results, output, resume, vacancy,
           today, scored, part >>

poolVars  == << nKeys, nProxies, keyCursor, proxyCursor, keyHist, proxyHist >>
taskVars  == << taskPc, taskDraws >>
callVars  == << workload, nItems, batch_size, max_concurrent >>
batchVars == << batches, semaphore, status, inflight, attempt, requests,
                jitters, waits, outcome, apiKey, proxy, ret, doneOrder,
                errorLog >>
outVars   == << result, summary >>
matchVars == << candidates_data, batch_results, output >>
scoreVars == << resume, vacancy, today, scored >>
partVars  == << part >>
pureVars  == << matchVars, scoreVars, partVars >>

Min(a, b) == IF a < b THEN a ELSE b
Max(a, b) == IF a > b THEN a ELSE b
Range(f) == { f[x] : x \in DOMAIN f }

\* ------------------------------------------------------------------ pools
\* itertools.cycle over a list of n entries: after the entry at 0-based
\* position c it continues with position c + 1, wrapping to 0 after n - 1.
NextCursor_NoWrap(c, n) == IF c + 1 >= n THEN c ELSE c + 1
NextCursor(c, n) == (c + 1) % n

\* The entry next() returns when the cycle stands at 0-based position c.
\* Entries are named by their 1-based position in API_KEYS / PROXIES.
EntryAt(c) == c + 1

\* The cursor a selection made by task t reads.  api_key_pool and proxy_pool
\* are module globals: every caller reads the one shared cycle object.
CursorRead_OwnCopy(shared, own, n) == own % n
CursorRead(shared, own, n) == shared

\* Start-up check of line 42: the module imports only with a key.
StartupOk_NoCheck(keys) == TRUE
StartupOk(keys) == keys > 0

\* ------------------------------------------------------- batch planning
Items(n) == [i \in 1..n |-> i]

\* pdf_texts[lo:hi] as python slices it (0-based, hi exclusive, clipped).
Slice_EndInclusive(s, lo, hi) == SubSeq(s, lo + 1, Min(hi + 1, Len(s)))
Slice(s, lo, hi) == SubSeq(s, lo + 1, Min(hi, Len(s)))

\* for i in range(0, len(items), batch_size): batches.append(items[i:i+bs])
RECURSIVE PlanFrom_FullOnly(_, _, _)
PlanFrom_FullOnly(s, i, bs) ==
    IF i + bs > Len(s) THEN << >>
    ELSE << Slice(s, i, i + bs) >> \o PlanFrom_FullOnly(s, i + bs, bs)

RECURSIVE PlanFrom(_, _, _)
PlanFrom(s, i, bs) ==
    IF i >= Len(s) THEN << >>
    ELSE << Slice(s, i, i + bs) >> \o PlanFrom(s, i + bs, bs)

Plan(n, bs) == PlanFrom(Items(n), 0, bs)

\* ------------------------------------------------- the external service
\* What one request can come back with.  A 200 response whose content is a
\* JSON object comes in three shapes: one entry per item of the batch
\* ("full"), the last item's entry missing ("short"), one entry more than
\* the batch has items ("extra").
OkShapes       == {"full", "short", "extra"}
ErrorResponses == {"http_error", "network_error", "bad_json"}
Throttle       == "429"

\* The entries of a 200 response for batch b, in the order of the JSON
\* object: label j is the service's "resume<j>" / "candidate_<j>", origin
\* the input position the entry describes (0: no item of the input).
ResponseEntries(b, shape) ==
    LET k == Len(b)
        m == CASE shape = "full"  -> k
               [] shape = "short" -> k - 1
               [] shape = "extra" -> k + 1
    IN  [j \in 1..m |-> [label |-> j, origin |-> IF j <= k THEN b[j] ELSE 0]]

\* parse_resume_batch_with_deepseek returns the parsed JSON object as it is
\* (line 155): its values in the object's order.
ParseReturn(b, shape) == ResponseEntries(b, shape)

\* match_candidate_to_vacancy_batch, lines 320-334: for the i-th candidate
\* of the batch, if the response has key candidate_<i>, emit the pair
\* (cand_id, that entry).
\* Lines 326-330: of the four score fields, each one the entry has is
\* replaced by max(0.0, min(100.0, float(value))).
ScoreKeys == {"overall_score", "technical_match_score",
              "experience_match_score", "soft_skills_match_score"}

ClampScore_LowerOnly(x) == Max(0, x)
ClampScore(x) == Max(0, Min(100, x))

\* The score fields of a response entry (none in an entry without them).
NoScores == [f \in {} |-> 0]
ScoresOf(e) == IF "scores" \in DOMAIN e THEN e.scores ELSE NoScores

Validated(sc) ==
    [f \in DOMAIN sc |-> IF f \in ScoreKeys THEN ClampScore(sc[f]) ELSE sc[f]]

RECURSIVE MatchOutputFrom(_, _, _)
MatchOutputFrom(b, entries, i) ==
    IF i > Len(b) THEN << >>
    ELSE LET hit == { j \in 1..Len(entries) : entries[j].label = i }
         IN  (IF hit = {} THEN << >>
              ELSE LET j == CHOOSE x \in hit : TRUE
                   IN  << [cand |-> b[i], label |-> entries[j].label,
                           origin |-> entries[j].origin,
                           scores |-> Validated(ScoresOf(entries[j]))] >>)
             \o MatchOutputFrom(b, entries, i + 1)

MatchReturn(b, shape) == MatchOutputFrom(b, ResponseEntries(b, shape), 1)

\* ------------------------------------------------------------ dispatcher
\* asyncio.Semaphore: a task is admitted when the value is positive.
SlotFree_Unlimited(sem) == TRUE
SlotFree(sem) == sem > 0

\* Leaving `async with semaphore`, by return or by exception, gives the
\* slot back.
\* The backoff sleep of line 161 is inside `async with semaphore`: the
\* slot stays taken while the batch waits.
SlotWhileThrottled_GivenBack(sem) == sem + 1
SlotWhileThrottled(sem) == sem

SlotReleased_Kept(sem) == sem
SlotReleased(sem) == sem + 1

\* wait_time = (attempt + 1) * 10, attempt counted from 0 (line 159).
BackoffDelay_Flat(a) == BackoffUnit
BackoffDelay(a) == (a + 1) * BackoffUnit

\* `if e.response.status_code == 429` (line 158): the only response the
\* retry loop of the parsing dispatcher goes round again for.
Retryable_AnyFailure(r) == r \notin OkShapes
Retryable(r) == r = Throttle

\* `if attempt == retry_count - 1: raise` (lines 162-163).
LastAttempt_Never(a) == FALSE
LastAttempt(a) == a = RetryCount - 1

Batches  == 1..Len(batches)
Terminal == {"Succeeded", "Failed"}
Admitted == { b \in Batches : status[b] \in {"Dispatched", "Throttled"} }
DispatchedSet == { b \in Batches : status[b] = "Dispatched" }

\* asyncio wakes the waiters of a semaphore in the order they began to wait,
\* and gather starts the tasks in planning order: the batch admitted next is
\* the first one still queued.
NextQueued(b) ==
    /\ status[b] = "Queued"
    /\ \A c \in Batches : c < b => status[c] # "Queued"

\* get_next_api_key() (lines 52-54) as called by task t that has made `own`
\* selections before: the entry returned, then the effect on the pool.
KeySelected(own) ==
    IF nKeys = 0 THEN NoKey
    ELSE EntryAt(CursorRead(keyCursor, own, nKeys))

GetNextApiKey(t, own) ==
    /\ keyCursor' = IF nKeys = 0 THEN keyCursor ELSE NextCursor(keyCursor, nKeys)
    /\ keyHist' = IF nKeys = 0 THEN keyHist
                  ELSE Append(keyHist, [task |-> t, entry |-> KeySelected(own)])

\* get_next_proxy() (lines 57-59): None when no proxy is configured.
ProxySelected(own) ==
    IF nProxies = 0 THEN NoProxy
    ELSE EntryAt(CursorRead(proxyCursor, own, nProxies))

GetNextProxy(t, own) ==
    /\ proxyCursor' = IF nProxies = 0 THEN proxyCursor
                      ELSE NextCursor(proxyCursor, nProxies)
    /\ proxyHist' = IF nProxies = 0 THEN proxyHist
                    ELSE Append(proxyHist, [task |-> t, entry |-> ProxySelected(own)])

\* --------------------------------------------------------------- actions
\* Module initialisation, lines 21-49.
Startup ==
    /\ phase = "loading"
    /\ phase' = IF StartupOk(nKeys) THEN "ready" ELSE "fatal"
    /\ UNCHANGED << poolVars, taskVars, callVars, batchVars, outVars, pureVars >>

\* parse_resumes_with_deepseek_parallel lines 188-220 and
\* match_candidates_to_vacancy_parallel lines 359-387, up to the gather:
\* plan the batches, create the semaphore, create one task per batch.
Call(w, n, bs, mc) ==
    /\ phase = "ready"
    /\ phase' = "running"
    /\ workload' = w
    /\ nItems' = n
    /\ batch_size' = bs
    /\ max_concurrent' = mc
    /\ batches' = Plan(n, bs)
    /\ semaphore' = mc
    /\ LET B == 1..Len(Plan(n, bs))
       IN  /\ status'   = [b \in B |-> "Queued"]
           /\ inflight' = [b \in B |-> FALSE]
           /\ attempt'  = [b \in B |-> 0]
           /\ requests' = [b \in B |-> 0]
           /\ jitters'  = [b \in B |-> 0]
           /\ waits'    = [b \in B |-> << >>]
           /\ outcome'  = [b \in B |-> "none"]
           /\ apiKey'   = [b \in B |-> NoKey]
           /\ proxy'    = [b \in B |-> NoProxy]
           /\ ret'      = [b \in B |-> << >>]
    /\ doneOrder' = << >>
    /\ UNCHANGED << poolVars, taskVars, errorLog, outVars, pureVars >>

\* The wrapper's `except Exception` (lines 210-212, 378-380): log one error
\* line, return an empty result, leave `async with semaphore`.
FailBatch_PerItem(b) ==
    /\ status' = [status EXCEPT ![b] = "Failed"]
    /\ inflight' = [inflight EXCEPT ![b] = FALSE]
    /\ ret' = [ret EXCEPT ![b] = << >>]
    /\ doneOrder' = Append(doneOrder, b)
    /\ errorLog' = errorLog + Len(batches[b])

FailBatch_AbortSiblings(b) ==
    /\ status' = [c \in Batches |->
                    IF c = b \/ status[c] \notin {"Succeeded", "Failed"}
                    THEN "Failed" ELSE status[c]]
    /\ inflight' = [c \in Batches |-> FALSE]
    /\ ret' = [ret EXCEPT ![b] = << >>]
    /\ doneOrder' = Append(doneOrder, b)
    /\ errorLog' = errorLog + 1

FailBatch(b) ==
    /\ status' = [status EXCEPT ![b] = "Failed"]
    /\ inflight' = [inflight EXCEPT ![b] = FALSE]
    /\ ret' = [ret EXCEPT ![b] = << >>]
    /\ doneOrder' = Append(doneOrder, b)
    /\ errorLog' = errorLog + 1

\* A queued task enters `async with semaphore` and runs to its first
\* suspension.  Parsing (lines 204-207, 77-78, 121-127): draw the key, draw
\* the proxy, enter the retry loop and start the jitter sleep.  Matching
\* (lines 372-375, 256, 291-307): draw the key, draw the proxy, post.
Admit(b) ==
    /\ phase = "running"
    /\ NextQueued(b)
    /\ SlotFree(semaphore)
    /\ GetNextApiKey(b, 0)
    /\ IF nKeys = 0
       THEN \* next() on the empty cycle raises inside the task
            /\ FailBatch(b)
            /\ UNCHANGED << semaphore, requests, jitters, apiKey, proxy,
                            proxyCursor, proxyHist >>
       ELSE /\ GetNextProxy(b, 0)
            /\ semaphore' = semaphore - 1
            /\ status' = [status EXCEPT ![b] = "Dispatched"]
            /\ apiKey' = [apiKey EXCEPT ![b] = KeySelected(0)]
            /\ proxy' = [proxy EXCEPT ![b] = ProxySelected(0)]
            /\ inflight' = [inflight EXCEPT ![b] = (workload = "match")]
            /\ requests' = [requests EXCEPT ![b] = IF workload = "match" THEN 1 ELSE 0]
            /\ jitters' = [jitters EXCEPT ![b] = IF workload = "parse" THEN 1 ELSE 0]
            /\ UNCHANGED << ret, doneOrder, errorLog >>
    /\ UNCHANGED << phase, nKeys, nProxies, taskVars, callVars, batches,
                    attempt, waits, outcome, outVars, pureVars >>

\* IssueRequest without the `return parsed_resumes` of line 155: the loop
\* goes round again after an answer.
IssueRequest_NoReturn(b) ==
    /\ phase = "running"
    /\ workload = "parse"
    /\ status[b] \in {"Dispatched", "Succeeded"}
    /\ ~inflight[b]
    /\ inflight' = [inflight EXCEPT ![b] = TRUE]
    /\ requests' = [requests EXCEPT ![b] = @ + 1]
    /\ UNCHANGED << phase, poolVars, taskVars, callVars, batches, semaphore,
                    status, attempt, jitters, waits, outcome, apiKey, proxy,
                    ret, doneOrder, errorLog, outVars, pureVars >>

\* Parsing: the jitter sleep of line 127 is over, the request of lines
\* 129-142 is posted.
IssueRequest(b) ==
    /\ phase = "running"
    /\ workload = "parse"
    /\ status[b] = "Dispatched"
    /\ ~inflight[b]
    /\ inflight' = [inflight EXCEPT ![b] = TRUE]
    /\ requests' = [requests EXCEPT ![b] = @ + 1]
    /\ UNCHANGED << phase, poolVars, taskVars, callVars, batches, semaphore,
                    status, attempt, jitters, waits, outcome, apiKey, proxy,
                    ret, doneOrder, errorLog, outVars, pureVars >>

\* A 200 response with a JSON object (lines 143-155, 308-334): the batch
\* function returns, the wrapper returns its value and frees the slot.
ReceiveOk(b, shape) ==
    /\ phase = "running"
    /\ status[b] = "Dispatched"
    /\ inflight[b]
    /\ outcome' = [outcome EXCEPT ![b] = shape]
    /\ status' = [status EXCEPT ![b] = "Succeeded"]
    /\ inflight' = [inflight EXCEPT ![b] = FALSE]
    /\ ret' = [ret EXCEPT ![b] = IF workload = "parse"
                                 THEN ParseReturn(batches[b], shape)
                                 ELSE MatchReturn(batches[b], shape)]
    /\ doneOrder' = Append(doneOrder, b)
    /\ semaphore' = SlotReleased(semaphore)
    /\ UNCHANGED << phase, poolVars, taskVars, callVars, batches, attempt,
                    requests, jitters, waits, apiKey, proxy, errorLog,
                    outVars, pureVars >>

\* A 429 response.  Parsing (lines 157-161): start the backoff sleep, slot
\* kept.  Matching has no retry loop: raise_for_status (line 308) raises into
\* `except Exception` (lines 336-338) and the wrapper.
ReceiveThrottled(b) ==
    /\ phase = "running"
    /\ status[b] = "Dispatched"
    /\ inflight[b]
    /\ outcome' = [outcome EXCEPT ![b] = Throttle]
    /\ IF workload = "parse" /\ Retryable(Throttle)
       THEN /\ status' = [status EXCEPT ![b] = "Throttled"]
            /\ inflight' = [inflight EXCEPT ![b] = FALSE]
            /\ waits' = [waits EXCEPT ![b] = Append(@, BackoffDelay(attempt[b]))]
            /\ semaphore' = SlotWhileThrottled(semaphore)
            /\ UNCHANGED << ret, doneOrder, errorLog >>
       ELSE /\ FailBatch(b)
            /\ semaphore' = SlotReleased(semaphore)
            /\ UNCHANGED waits
    /\ UNCHANGED << phase, poolVars, taskVars, callVars, batches, attempt,
                    requests, jitters, apiKey, proxy, outVars, pureVars >>

\* Any other failure of the attempt: a non-429 error status (line 165), a
\* network error, content that is no JSON (line 153; lines 167-169 re-raise).
ReceiveError(b, r) ==
    /\ phase = "running"
    /\ status[b] = "Dispatched"
    /\ inflight[b]
    /\ outcome' = [outcome EXCEPT ![b] = r]
    /\ IF workload = "parse" /\ Retryable(r)
       THEN /\ status' = [status EXCEPT ![b] = "Throttled"]
            /\ inflight' = [inflight EXCEPT ![b] = FALSE]
            /\ waits' = [waits EXCEPT ![b] = Append(@, BackoffDelay(attempt[b]))]
            /\ semaphore' = SlotWhileThrottled(semaphore)
            /\ UNCHANGED << ret, doneOrder, errorLog >>
       ELSE /\ FailBatch(b)
            /\ semaphore' = SlotReleased(semaphore)
            /\ UNCHANGED waits
    /\ UNCHANGED << phase, poolVars, taskVars, callVars, batches, attempt,
                    requests, jitters, apiKey, proxy, outVars, pureVars >>

\* The backoff sleep of line 161 is over: raise after the last attempt
\* (lines 162-163), else go round the loop into the next jitter sleep.
BackoffElapsed(b) ==
    /\ phase = "running"
    /\ status[b] = "Throttled"
    /\ IF LastAttempt(attempt[b])
       THEN /\ FailBatch(b)
            /\ semaphore' = SlotReleased(semaphore)
            /\ UNCHANGED << attempt, jitters >>
       ELSE IF attempt[b] + 1 < RetryCount
       THEN /\ status' = [status EXCEPT ![b] = "Dispatched"]
            /\ attempt' = [attempt EXCEPT ![b] = @ + 1]
            /\ jitters' = [jitters EXCEPT ![b] = @ + 1]
            /\ UNCHANGED << semaphore, inflight, ret, doneOrder, errorLog >>
       ELSE \* range(retry_count) is used up: the function falls off its
            \* end and returns None, which the aggregator passes over
            /\ status' = [status EXCEPT ![b] = "Succeeded"]
            /\ ret' = [ret EXCEPT ![b] = << >>]
            /\ doneOrder' = Append(doneOrder, b)
            /\ semaphore' = SlotReleased(semaphore)
            /\ UNCHANGED << attempt, jitters, inflight, errorLog >>
    /\ UNCHANGED << phase, poolVars, taskVars, callVars, batches, requests,
                    waits, outcome, apiKey, proxy, outVars, pureVars >>

\* ------------------------------------------------------------ aggregator
\* asyncio.gather (lines 220, 387) returns the values of the tasks in the
\* order the tasks were passed to it, whatever the order they returned in.
Gather_AsCompleted(rets, order) == [k \in 1..Len(order) |-> rets[order[k]]]
Gather(rets, order) == rets

\* Lines 233-236: every value of one batch result is stored under
\* "resume<resume_counter>", the counter running on from the batch before.
Rekey(records, counter) ==
    [j \in 1..Len(records) |->
        [key |-> counter + j - 1, label |-> records[j].label,
         origin |-> records[j].origin]]

\* Lines 223-236: fold the batch results in the order gather returns them,
\* which is the order of the tasks, not of their completion.
RECURSIVE MergeParse(_, _, _)
MergeParse(rets, i, counter) ==
    IF i > Len(rets) THEN << >>
    ELSE Rekey(rets[i], counter)
         \o MergeParse(rets, i + 1, counter + Len(rets[i]))

\* Lines 390-397: all_matches.extend(batch_result), same order.
RECURSIVE MergeMatch(_, _)
MergeMatch(rets, i) ==
    IF i > Len(rets) THEN << >>
    ELSE rets[i] \o MergeMatch(rets, i + 1)

\* gather returns once every task has returned; the results are merged, the
\* summary line is logged (lines 238, 399) and the call returns.
Aggregate ==
    /\ phase = "running"
    /\ \A b \in Batches : status[b] \in Terminal
    /\ phase' = "done"
    /\ LET gathered == Gather(ret, doneOrder)
       IN  /\ result' = IF workload = "parse"
                        THEN MergeParse(gathered, 1, 1)
                        ELSE MergeMatch(gathered, 1)
           /\ summary' = IF workload = "parse"
                         THEN << Len(MergeParse(gathered, 1, 1)), nItems >>
                         ELSE << Len(MergeMatch(gathered, 1)) >>
    /\ UNCHANGED << poolVars, taskVars, callVars, batchVars, pureVars >>

\* ------------------------------------------------------ scoring engine
Date(y, m, d) == [year |-> y, month |-> m, day |-> d]

\* The day the scoring specification starts on.
FirstDay == Date(2026, 6, 14)

\* matching_service.py.  Text is in the Latin alphabet: a Russian word of
\* the source is written in transliteration.
NoneInt == 0 - 1                                 \* None where a number may stand
NoDate  == [year |-> 0, month |-> 0, day |-> 0]  \* None where a date may stand

Uppers == "ABCDEFGHIJKLMNOPQRSTUVWXYZ"
Lowers == "abcdefghijklmnopqrstuvwxyz"

CharAt(s, i) == SubSeq(s, i, i)

\* The table that sends every character of `from` to the character at the
\* same place of `to`.
CharTable(from, to) ==
    [c \in { CharAt(from, i) : i \in 1..Len(from) } |->
        CharAt(to, CHOOSE i \in 1..Len(from) : CharAt(from, i) = c)]

ToLower == CharTable(Uppers, Lowers)
ToUpper == CharTable(Lowers, Uppers)

MapChar(c, table) == IF c \in DOMAIN table THEN table[c] ELSE c

\* str.lower() and str.upper()
RECURSIVE StrLower(_)
StrLower(s) ==
    IF Len(s) = 0 THEN ""
    ELSE MapChar(CharAt(s, 1), ToLower) \o StrLower(SubSeq(s, 2, Len(s)))

RECURSIVE StrUpper(_)
StrUpper(s) ==
    IF Len(s) = 0 THEN ""
    ELSE MapChar(CharAt(s, 1), ToUpper) \o StrUpper(SubSeq(s, 2, Len(s)))

\* str.strip(): blanks taken off both ends
RECURSIVE StrStrip(_)
StrStrip(s) ==
    IF Len(s) = 0 THEN ""
    ELSE IF CharAt(s, 1) = " " THEN StrStrip(SubSeq(s, 2, Len(s)))
    ELSE IF CharAt(s, Len(s)) = " " THEN StrStrip(SubSeq(s, 1, Len(s) - 1))
    ELSE s

\* `kw in text` on strings: kw occurs in text as a substring
StrContains(text, kw) ==
    \E i \in 1..(Len(text) - Len(kw) + 1) : SubSeq(text, i, i + Len(kw) - 1) = kw

\* int(x) of python for the quotient a / b, b > 0: cut toward zero
TruncDiv(a, b) == IF a >= 0 THEN a \div b ELSE 0 - ((0 - a) \div b)

\* int((n / d) * scale) is formed in binary floating point.  For these
\* << n, d, scale >> (all there are with 0 <= n <= d < 200 and scale 100 or
\* 20) the product comes out just below the whole number it equals, and
\* int() gives one less than the exact quotient.
RatioShort == { << 29, 50, 100 >>, << 29, 100, 100 >>, << 57, 100, 100 >>,
                << 58, 100, 100 >>, << 87, 150, 100 >> }

RatioScore(n, d, scale) ==
    TruncDiv(n * scale, d) - (IF << n, d, scale >> \in RatioShort THEN 1 ELSE 0)

\* calculate_experience_score, lines 10-41
calculate_experience_score(years, min_years, max_years) ==
    IF years < min_years
    THEN IF min_years = 0 THEN 100 ELSE RatioScore(years, min_years, 100)
    ELSE IF max_years = NoneInt THEN 100
    ELSE IF years <= max_years THEN 100
    ELSE Max(80, 100 - Min((years - max_years) * 5, 20))

\* The age on day `on_day`, line 67: the difference of the years, one less
\* when (month, day) of that day comes before (month, day) of the birth date.
AgeOn_YearsOnly(on_day, birth_date) == on_day.year - birth_date.year

AgeOn(on_day, birth_date) ==
    on_day.year - birth_date.year
        - (IF \/ on_day.month < birth_date.month
              \/ (on_day.month = birth_date.month /\ on_day.day < birth_date.day)
           THEN 1 ELSE 0)

\* calculate_age_score, lines 44-75; `on_day` is what date.today() returns
\* (line 66).
calculate_age_score(birth_date, min_age, max_age, on_day) ==
    IF min_age = NoneInt /\ max_age = NoneInt THEN 100
    ELSE IF birth_date = NoDate THEN 0
    ELSE IF min_age # NoneInt /\ AgeOn(on_day, birth_date) < min_age THEN 0
    ELSE IF max_age # NoneInt /\ AgeOn(on_day, birth_date) > max_age THEN 0
    ELSE 100

\* level_keywords.get(education_level, []), lines 100-105
LevelKeywords(level) ==
    CASE level = "Bakalavr"   -> {"bakalavr", "bachelor"}
      [] level = "Magistr"    -> {"magistr", "master"}
      [] level = "Specialist" -> {"specialist"}
      [] OTHER                -> {}

\* lines 111 and 117
HigherEducationWords == {"universitet", "institut", "university", "vysshee"}

\* calculate_education_score without line 98: the text is searched as written.
calculate_education_score_CaseSensitive(candidate_education, education_required, education_level) ==
    IF education_required = 0 THEN 100
    ELSE IF candidate_education = "" THEN 0
    ELSE LET higher == \E w \in HigherEducationWords : StrContains(candidate_education, w)
         IN  IF education_level # ""
             THEN IF \E k \in LevelKeywords(education_level) :
                        StrContains(candidate_education, k)
                  THEN 100
                  ELSE IF higher THEN 70 ELSE 30
             ELSE IF higher THEN 100 ELSE 30

\* calculate_education_score, lines 78-121; an absent text or level is "".
calculate_education_score(candidate_education, education_required, education_level) ==
    IF education_required = 0 THEN 100
    ELSE IF candidate_education = "" THEN 0
    ELSE LET education_lower == StrLower(candidate_education)
             higher == \E w \in HigherEducationWords : StrContains(education_lower, w)
         IN  IF education_level # ""
             THEN IF \E k \in LevelKeywords(education_level) :
                        StrContains(education_lower, k)
                  THEN 100
                  ELSE IF higher THEN 70 ELSE 30
             ELSE IF higher THEN 100 ELSE 30

\* [s.lower().strip() for s in skills]
Normalized(skills) == { StrStrip(StrLower(skills[i])) : i \in 1..Len(skills) }

\* The skills of `wanted`, in order, that are (held = TRUE) or are not
\* (held = FALSE) among the candidate's after normalisation.
RECURSIVE SkillsFiltered(_, _, _)
SkillsFiltered(wanted, candidate_lower, held) ==
    IF wanted = << >> THEN << >>
    ELSE (IF (StrStrip(StrLower(Head(wanted))) \in candidate_lower) = held
          THEN << Head(wanted) >> ELSE << >>)
         \o SkillsFiltered(Tail(wanted), candidate_lower, held)

\* calculate_technical_skills_score, lines 124-174
calculate_technical_skills_score(candidate_skills, required_skills, optional_skills) ==
    LET candidate_skills_lower == Normalized(candidate_skills)
        matched_required == SkillsFiltered(required_skills, candidate_skills_lower, TRUE)
        missing_required == SkillsFiltered(required_skills, candidate_skills_lower, FALSE)
        matched_optional == SkillsFiltered(optional_skills, candidate_skills_lower, TRUE)
        base_score == IF Len(required_skills) = 0 THEN 100
                      ELSE RatioScore(Len(matched_required), Len(required_skills), 100)
        final_score == IF Len(optional_skills) > 0
                       THEN Min(100, base_score
                                + RatioScore(Len(matched_optional), Len(optional_skills), 20))
                       ELSE base_score
    IN  [score |-> final_score,
         matched |-> matched_required \o matched_optional,
         missing |-> missing_required]

\* calculate_soft_skills_score, lines 177-201
calculate_soft_skills_score(candidate_soft_skills, required_soft_skills) ==
    IF Len(required_soft_skills) = 0 THEN [score |-> 100, matched |-> << >>]
    ELSE LET matched == SkillsFiltered(required_soft_skills,
                                       Normalized(candidate_soft_skills), TRUE)
         IN  [score |-> RatioScore(Len(matched), Len(required_soft_skills), 100),
              matched |-> matched]

\* compare_language_level, lines 204-217
Levels == << "A1", "A2", "B1", "B2", "C1", "C2" >>

LevelIndex(level) == CHOOSE i \in 1..Len(Levels) : Levels[i] = StrUpper(level)

compare_language_level(candidate_level, required_level) ==
    IF \/ StrUpper(candidate_level) \notin Range(Levels)
       \/ StrUpper(required_level) \notin Range(Levels)
    THEN FALSE
    ELSE LevelIndex(candidate_level) >= LevelIndex(required_level)

\* cand_lang.get('level', 'A1'), line 244
CandidateLevel(cand_lang) ==
    IF "level" \in DOMAIN cand_lang THEN cand_lang.level ELSE "A1"

\* Line 246: the names match when either contains the other.
NamesMatch(req_lang, cand_lang) ==
    LET req_name  == StrStrip(StrLower(req_lang.language))
        cand_name == StrStrip(StrLower(cand_lang.language))
    IN  StrContains(cand_name, req_name) \/ StrContains(req_name, cand_name)

\* The inner loop of lines 242-249: the first candidate entry, from place i
\* on, whose name matches and whose level suffices ends the search.
RECURSIVE FirstSatisfying(_, _, _)
FirstSatisfying(req_lang, candidate_languages, i) ==
    IF i > Len(candidate_languages) THEN << >>
    ELSE IF /\ NamesMatch(req_lang, candidate_languages[i])
            /\ compare_language_level(CandidateLevel(candidate_languages[i]),
                                      req_lang.min_level)
    THEN << req_lang.language \o " ("
            \o CandidateLevel(candidate_languages[i]) \o ")" >>
    ELSE FirstSatisfying(req_lang, candidate_languages, i + 1)

RECURSIVE MatchedLanguages(_, _)
MatchedLanguages(required_languages, candidate_languages) ==
    IF required_languages = << >> THEN << >>
    ELSE FirstSatisfying(Head(required_languages), candidate_languages, 1)
         \o MatchedLanguages(Tail(required_languages), candidate_languages)

\* calculate_language_score, lines 220-253
calculate_language_score(candidate_languages, required_languages) ==
    IF Len(required_languages) = 0 THEN [score |-> 100, matched |-> << >>]
    ELSE LET matched == MatchedLanguages(required_languages, candidate_languages)
         IN  [score |-> RatioScore(Len(matched), Len(required_languages), 100),
              matched |-> matched]

\* int(<sum of the four weighted subscores>), lines 311-316.  Each term
\* subscore * weight / 100 and their sum are formed in binary floating
\* point.  For these << experience * weight, technical * weight,
\* soft * weight, language * weight >> (all there are among the pairs scored
\* here) the sum comes out just below the whole number it equals, and int()
\* gives one less.
SumShort == { << 70, 165, 165, 0 >> }

WeightedSum(experience_score, technical_score, soft_score, language_score, v) ==
    LET terms == << experience_score * v.weight_experience,
                    technical_score * v.weight_technical_skills,
                    soft_score * v.weight_soft_skills,
                    language_score * v.weight_languages >>
        total == terms[1] + terms[2] + terms[3] + terms[4]
    IN  TruncDiv(total, 100)
        - (IF terms \in SumShort THEN (IF total > 0 THEN 1 ELSE 0 - 1) ELSE 0)

\* int(overall_score * 0.5), line 320: the product is exact.
PenaltyHalf_None(x) == x
PenaltyHalf(x) == TruncDiv(x, 2)

\* int(overall_score * 0.7), line 323, in binary floating point: for these
\* x (all there are up to 400) the product comes out just below the whole
\* number 7x/10, and int() gives one less.
SeventyShort == { 90, 170, 180, 330, 340, 350, 360 }

PenaltySeventy(x) ==
    TruncDiv(x * 7, 10)
    - (IF x \in SeventyShort THEN 1 ELSE IF (0 - x) \in SeventyShort THEN 0 - 1 ELSE 0)

\* max(0, min(100, overall_score)), line 326
ClampOverall_NoUpper(x) == Max(0, x)
ClampOverall(x) == Max(0, Min(100, x))

\* match_candidate_to_vacancy_deterministic, lines 256-343, called on day
\* `day`.  `resume.experience_years or 0` is line 272.
match_candidate_to_vacancy_deterministic(r, v, day) ==
    LET experience_score == calculate_experience_score(
            IF r.experience_years = NoneInt THEN 0 ELSE r.experience_years,
            v.min_experience_years, v.max_experience_years)
        age_score == calculate_age_score(r.birth_date, v.min_age, v.max_age, day)
        education_score == calculate_education_score(
            r.education, v.education_required, v.education_level)
        technical == calculate_technical_skills_score(
            r.technical_skills, v.required_technical_skills,
            v.optional_technical_skills)
        soft == calculate_soft_skills_score(r.soft_skills, v.required_soft_skills)
        language == calculate_language_score(r.languages, v.required_languages)
        weighted == WeightedSum(experience_score, technical.score, soft.score,
                                language.score, v)
        after_age == IF age_score = 0 THEN PenaltyHalf(weighted) ELSE weighted
        after_education ==
            IF education_score < 50 /\ v.education_required # 0
            THEN PenaltySeventy(after_age) ELSE after_age
    IN  [overall_score |-> ClampOverall(after_education),
         experience_score |-> experience_score,
         technical_skills_score |-> technical.score,
         soft_skills_score |-> soft.score,
         language_score |-> language.score,
         education_score |-> education_score,
         age_score |-> age_score,
         matched_technical_skills |-> technical.matched,
         missing_technical_skills |-> technical.missing,
         matched_soft_skills |-> soft.matched,
         matched_languages |-> language.matched]

\* ------------------------------------------------- other users of the pools
\* analyze_vacancy_requirements (lines 424, 446) draws a key and a proxy,
\* analyze_interview_answers (line 487) a key alone; each then awaits its
\* request.  Tasks of several such calls run on the event loop at once.
Tasks == 1..MaxTasks

TaskDrawBoth(t) ==
    /\ phase = "ready"
    /\ taskPc[t] = "idle"
    /\ Len(keyHist) < MaxSelections
    /\ GetNextApiKey(t, taskDraws[t])
    /\ GetNextProxy(t, taskDraws[t])
    /\ taskPc' = [taskPc EXCEPT ![t] = "awaiting"]
    /\ taskDraws' = [taskDraws EXCEPT ![t] = @ + 1]
    /\ UNCHANGED << phase, nKeys, nProxies, callVars, batchVars, outVars, pureVars >>

TaskDrawKey(t) ==
    /\ phase = "ready"
    /\ taskPc[t] = "idle"
    /\ Len(keyHist) < MaxSelections
    /\ GetNextApiKey(t, taskDraws[t])
    /\ taskPc' = [taskPc EXCEPT ![t] = "awaiting"]
    /\ taskDraws' = [taskDraws EXCEPT ![t] = @ + 1]
    /\ UNCHANGED << phase, nKeys, nProxies, proxyCursor, proxyHist, callVars,
                    batchVars, outVars, pureVars >>

\* The request of the task is answered and the task ends; the next call
\* starts a task in its place.
TaskReturn(t) ==
    /\ phase = "ready"
    /\ taskPc[t] = "awaiting"
    /\ taskPc' = [taskPc EXCEPT ![t] = "idle"]
    /\ UNCHANGED << phase, poolVars, taskDraws, callVars, batchVars, outVars, pureVars >>

\* ------------------------------------------------------- specifications
InitCall ==
    /\ phase = "loading"
    /\ keyCursor = 0
    /\ proxyCursor = 0
    /\ keyHist = << >>
    /\ proxyHist = << >>
    /\ workload = "none"
    /\ nItems = 0
    /\ batch_size = 0
    /\ max_concurrent = 0
    /\ batches = << >>
    /\ semaphore = 0
    /\ status = << >>
    /\ inflight = << >>
    /\ attempt = << >>
    /\ requests = << >>
    /\ jitters = << >>
    /\ waits = << >>
    /\ outcome = << >>
    /\ apiKey = << >>
    /\ proxy = << >>
    /\ ret = << >>
    /\ doneOrder = << >>
    /\ errorLog = 0
    /\ result = << >>
    /\ summary = << >>
    /\ candidates_data = << >>
    /\ batch_results = << >>
    /\ output = << >>
    /\ resume = << >>
    /\ vacancy = << >>
    /\ today = FirstDay
    /\ scored = << >>
    /\ part = << >>

\* One orchestrated call in a process configured with keys and proxies.
Init ==
    /\ InitCall
    /\ nKeys = MaxKeys
    /\ nProxies = MaxProxies
    /\ taskPc = << >>
    /\ taskDraws = << >>

Run ==
    \/ \E b \in Batches : Admit(b)
    \/ \E b \in Batches : IssueRequest(b)
    \/ \E b \in Batches, shape \in OkShapes : ReceiveOk(b, shape)
    \/ \E b \in Batches : ReceiveThrottled(b)
    \/ \E b \in Batches, r \in ErrorResponses : ReceiveError(b, r)
    \/ \E b \in Batches : BackoffElapsed(b)
    \/ Aggregate

Next ==
    \/ Startup
    \/ \E w \in {"parse", "match"}, n \in 0..MaxItems,
          bs \in 1..MaxBatchSize, mc \in 1..MaxConcurrent : Call(w, n, bs, mc)
    \/ Run

Spec == Init /\ [][Next]_vars

\* The same call on an event loop that runs every task that can run, with a
\* service that answers every request and sleeps that end: a queued task
\* whose turn it is enters a free slot, a jitter sleep ends and the request
\* is posted, a posted request is answered in some way, a backoff sleep
\* ends, and gather returns once every task has.
Respond(b) ==
    \/ \E shape \in OkShapes : ReceiveOk(b, shape)
    \/ ReceiveThrottled(b)
    \/ \E r \in ErrorResponses : ReceiveError(b, r)

Fairness ==
    /\ \A b \in 1..MaxItems :
          /\ WF_vars(b \in Batches /\ Admit(b))
          /\ WF_vars(b \in Batches /\ IssueRequest(b))
          /\ WF_vars(b \in Batches /\ Respond(b))
          /\ WF_vars(b \in Batches /\ BackoffElapsed(b))
    /\ WF_vars(Aggregate)

SpecLive == Init /\ [][Next]_vars /\ Fairness

\* Start-up under every configuration of the two pools, followed by one
\* orchestrated call.
InitStartup ==
    /\ InitCall
    /\ nKeys \in 0..MaxKeys
    /\ nProxies \in 0..MaxProxies
    /\ taskPc = << >>
    /\ taskDraws = << >>

NextStartup ==
    \/ Startup
    \/ \E w \in {"parse", "match"}, n \in 0..MaxStartupItems,
          bs \in 1..MaxBatchSize, mc \in 1..MaxConcurrent : Call(w, n, bs, mc)
    \/ Run

SpecStartup == InitStartup /\ [][NextStartup]_vars

\* The pools used by the tasks of several calls at once.
InitPool ==
    /\ InitCall
    /\ nKeys \in 0..MaxKeys
    /\ nProxies \in 0..MaxProxies
    /\ taskPc = [t \in Tasks |-> "idle"]
    /\ taskDraws = [t \in Tasks |-> 0]

NextPool ==
    \/ Startup
    \/ \E t \in Tasks : TaskDrawBoth(t)
    \/ \E t \in Tasks : TaskDrawKey(t)
    \/ \E t \in Tasks : TaskReturn(t)

SpecPool == InitPool /\ [][NextPool]_vars

\* match_candidate_to_vacancy_batch called on one batch and answered with a
\* JSON object (lines 256, 291, 308-334): the key and the proxy are drawn,
\* the response is split per candidate and returned.
MatchBatchCall(cd, br) ==
    /\ phase = "ready"
    /\ phase' = "returned"
    /\ GetNextApiKey(0, 0)
    /\ GetNextProxy(0, 0)
    /\ candidates_data' = cd
    /\ batch_results' = br
    /\ output' = MatchOutputFrom(cd, br, 1)
    /\ UNCHANGED << nKeys, nProxies, taskVars, callVars, batchVars, outVars,
                    scoreVars, partVars >>

\* The score fields a response entry can carry: none, one, all four, below
\* 0, inside and above 100.
ScoreProfiles ==
    { NoScores,
      [f \in {"overall_score"} |-> 150],
      [f \in ScoreKeys |-> 0 - 20],
      [f \in ScoreKeys |-> 50],
      [f \in ScoreKeys |-> 150],
      [f \in ScoreKeys |-> IF f = "overall_score" THEN 100 ELSE 101] }

RECURSIVE SortedSeq(_)
SortedSeq(S) ==
    IF S = {} THEN << >>
    ELSE LET m == CHOOSE x \in S : \A y \in S : x <= y
         IN  << m >> \o SortedSeq(S \ {m})

\* Every JSON object a batch cd can be answered with: any of the labels
\* candidate_1 .. candidate_<len + 1>, each with any score profile.
Responses(cd) ==
    { [j \in 1..Len(SortedSeq(L)) |->
          LET i == SortedSeq(L)[j]
          IN  [label |-> i,
               origin |-> IF i <= Len(cd) THEN cd[i] ELSE 0,
               scores |-> pr[i]]] :
      L \in SUBSET (1..(Len(cd) + 1)), pr \in [1..(Len(cd) + 1) -> ScoreProfiles] }

NextMatchBatch ==
    \/ Startup
    \/ \E lo \in 0..(MaxItems - 1), k \in 1..MaxBatchSize :
          \E br \in Responses(Slice(Items(MaxItems), lo, lo + k)) :
              MatchBatchCall(Slice(Items(MaxItems), lo, lo + k), br)

SpecMatchBatch == Init /\ [][NextMatchBatch]_vars

\* The candidates and criteria scored.
Resumes ==
    { [experience_years |-> ex, birth_date |-> bd, education |-> ed,
       technical_skills |-> ts, soft_skills |-> << "Teamwork" >>,
       languages |-> << [language |-> "English", level |-> "b2"] >>] :
      ex \in {NoneInt, 2, 5, 12},
      bd \in {NoDate, Date(1980, 6, 15), Date(1976, 3, 1)},
      ed \in {"", "MGU, Bakalavr"},
      ts \in {<< >>, << "Python ", "sql" >>} }

Vacancies ==
    { [min_experience_years |-> ex[1], max_experience_years |-> ex[2],
       min_age |-> ag[1], max_age |-> ag[2],
       education_required |-> ed[1], education_level |-> ed[2],
       required_technical_skills |-> << "Python", "SQL", "Docker" >>,
       optional_technical_skills |-> << >>,
       required_soft_skills |-> so, required_languages |-> la,
       weight_experience |-> w[1], weight_technical_skills |-> w[2],
       weight_soft_skills |-> w[3], weight_languages |-> w[4]] :
      ex \in {<< 4, NoneInt >>, << 3, 10 >>},
      ag \in {<< NoneInt, NoneInt >>, << 25, 45 >>},
      ed \in {<< 0, "" >>, << 1, "Bakalavr" >>, << 1, "Magistr" >>},
      so \in {<< >>, << "teamwork", "Leadership" >>},
      la \in {<< >>, << [language |-> "english", min_level |-> "C1"] >>},
      w \in {<< 30, 40, 20, 10 >>, << 25, 25, 25, 25 >>, << 100, 0, 0, 0 >>,
             << 60, 60, 60, 60 >>, << 0 - 30, 40, 20, 10 >>} }

\* A pair whose weighted sum is the whole number 4 and comes out as 3.
SlipResume ==
    [experience_years |-> 1, birth_date |-> NoDate, education |-> "",
     technical_skills |-> << "python" >>, soft_skills |-> << "teamwork" >>,
     languages |-> << >>]

SlipVacancy ==
    [min_experience_years |-> 7, max_experience_years |-> NoneInt,
     min_age |-> NoneInt, max_age |-> NoneInt,
     education_required |-> 0, education_level |-> "",
     required_technical_skills |-> << "Python", "SQL", "Docker" >>,
     optional_technical_skills |-> << "Go" >>,
     required_soft_skills |-> << "teamwork", "leadership", "empathy" >>,
     required_languages |-> << [language |-> "english", min_level |-> "B1"] >>,
     weight_experience |-> 5, weight_technical_skills |-> 5,
     weight_soft_skills |-> 5, weight_languages |-> 85]

Pairs == (Resumes \X Vacancies) \cup { << SlipResume, SlipVacancy >> }

\* The first scoring call on a pair.
ScoreCall(r, v) ==
    /\ phase = "ready"
    /\ phase' = "scored"
    /\ resume' = r
    /\ vacancy' = v
    /\ scored' = << match_candidate_to_vacancy_deterministic(r, v, today) >>
    /\ UNCHANGED << poolVars, taskVars, callVars, batchVars, outVars,
                    matchVars, today, partVars >>

\* A further call with the same two arguments.
ScoreAgain ==
    /\ phase = "scored"
    /\ Len(scored) < MaxCalls
    /\ scored' = Append(scored,
                        match_candidate_to_vacancy_deterministic(resume, vacancy, today))
    /\ UNCHANGED << phase, poolVars, taskVars, callVars, batchVars, outVars,
                    matchVars, resume, vacancy, today,
                    partVars >>

\* Midnight: date.today() returns the next day from now on.
DayPasses ==
    /\ today.day - FirstDay.day < MaxDaysPassed
    /\ today' = [today EXCEPT !.day = @ + 1]
    /\ UNCHANGED << phase, poolVars, taskVars, callVars, batchVars, outVars,
                    matchVars, resume, vacancy, scored,
                    partVars >>

NextScore ==
    \/ Startup
    \/ phase = "ready" /\ \E p \in Pairs : ScoreCall(p[1], p[2])
    \/ ScoreAgain
    \/ DayPasses

SpecScore == Init /\ [][NextScore]_vars

\* One call of a subscore calculator: its name, its arguments and what it
\* returns.
PartCall(fn, args, out) ==
    /\ phase = "ready"
    /\ phase' = "part"
    /\ part' = [fn |-> fn, args |-> args, out |-> out]
    /\ UNCHANGED << poolVars, taskVars, callVars, batchVars, outVars,
                    matchVars, scoreVars >>

ExperienceCall(e, mn, mx) ==
    PartCall("experience", << e, mn, mx >>, calculate_experience_score(e, mn, mx))

TechnicalCall(c, r, o) ==
    PartCall("technical", << c, r, o >>, calculate_technical_skills_score(c, r, o))

\* The sequences made of some of the entries of seq, in the order of seq.
Selections(seq) ==
    { [i \in 1..Cardinality(I) |-> seq[SortedSeq(I)[i]]] : I \in SUBSET DOMAIN seq }

\* Skills a vacancy names and skills as a resume spells them.
VacancySkills == << "Python", "FastAPI", "PostgreSQL", "Docker" >>
ResumeSkills  == << "python ", "FASTAPI", " docker", "Go" >>

\* A long list of n skills, "s01", "s02", ...
Digits == "0123456789"
SkillName(i) == "s" \o CharAt(Digits, (i \div 10) + 1) \o CharAt(Digits, (i % 10) + 1)
ManySkills(n) == [i \in 1..n |-> SkillName(i)]

LanguageCall(c, r) ==
    PartCall("language", << c, r >>, calculate_language_score(c, r))

\* Languages a vacancy requires and languages as a resume lists them: one
\* twice at two levels, one in upper case above the minimum, one shortened
\* and without a level, one at a level outside the scale.
VacancyLanguages ==
    << [language |-> "English", min_level |-> "B1"],
       [language |-> "German", min_level |-> "c1"],
       [language |-> "French ", min_level |-> "A1"] >>
ResumeLanguages ==
    << [language |-> "english", level |-> "A2"],
       [language |-> " English", level |-> "b2"],
       [language |-> "GERMAN", level |-> "C2"],
       [language |-> "Fren"],
       [language |-> "German", level |-> "Native"] >>

\* n required languages "s01", "s02", ..., and the first k of them as a
\* candidate lists them.
ManyRequiredLanguages(n) ==
    [i \in 1..n |-> [language |-> SkillName(i), min_level |-> "B1"]]
ManyResumeLanguages(k) ==
    [i \in 1..k |-> [language |-> SkillName(i), level |-> "C2"]]

EducationCall(text, required, level) ==
    PartCall("education", << text, required, level >>,
             calculate_education_score(text, required, level))

\* Education as resumes word it, and the levels a vacancy may name: the
\* three the code knows, one it does not know, one in lower case, none.
EducationTexts ==
    { "", " ", "MGU, Bakalavr", "BACHELOR of Science, Stanford University",
      "Politehnicheskij INSTITUT", "Master, vysshee", "Kolledzh svyazi",
      "specialist", "Magistr prava" }
EducationLevels == { "", "Bakalavr", "Magistr", "Specialist", "Doktor", "bakalavr" }

\* The call is made on the day `today`, which date.today() returns to it.
AgeCall(birth_date, min_age, max_age) ==
    PartCall("age", << birth_date, min_age, max_age, today >>,
             calculate_age_score(birth_date, min_age, max_age, today))

\* Birth dates on either side of the birthdays that decide ages 25 and 45
\* on the days of the specification, and none.
BirthDates ==
    {NoDate} \cup { Date(y, m, d) : y \in {1980, 1981, 2000, 2001},
                                    m \in {5, 6, 7}, d \in {13, 14, 15, 16} }

NextParts ==
    \/ Startup
    \/ DayPasses
    \/ /\ phase = "ready"
       /\ \E birth_date \in BirthDates, min_age \in {NoneInt, 0, 25},
             max_age \in {NoneInt, 24, 45} : AgeCall(birth_date, min_age, max_age)
    \/ /\ phase = "ready"
       /\ \E text \in EducationTexts, required \in {0, 1, 2},
             level \in EducationLevels : EducationCall(text, required, level)
    \/ /\ phase = "ready"
       /\ \E c \in Selections(ResumeLanguages), r \in Selections(VacancyLanguages) :
             LanguageCall(c, r)
    \/ /\ phase = "ready"
       /\ \E n \in (MaxRequired - 1)..MaxRequired, k \in 0..MaxRequired :
             /\ k <= n
             /\ LanguageCall(ManyResumeLanguages(k), ManyRequiredLanguages(n))
    \/ /\ phase = "ready"
       /\ \E c \in Selections(ResumeSkills), r \in Selections(VacancySkills),
             o \in Selections(VacancySkills) : TechnicalCall(c, r, o)
    \/ /\ phase = "ready"
       /\ \E n \in (MaxRequired - 1)..MaxRequired, k \in 0..MaxRequired :
             /\ k <= n
             /\ TechnicalCall(ManySkills(k), ManySkills(n), << >>)
    \/ /\ phase = "ready"
       /\ \E e \in 0..MaxYears, mn \in 0..MaxMinYears,
             mx \in {NoneInt} \cup 0..MaxMaxYears : ExperienceCall(e, mn, mx)

SpecParts == Init /\ [][NextParts]_vars

\* ------------------------------------------- the backward-compatible entry
\* parse_resumes_with_deepseek_extended, lines 404-413.
DefaultBatchSize     == 4   \* batch_size default, line 174
DefaultMaxConcurrent == 3   \* max_concurrent default, line 175

\* `if len(pdf_texts) <= 4` (line 408)
RoutesDirect_Strict(n) == n < 4
RoutesDirect(n) == n <= 4

\* Line 410: parse_resume_batch_with_deepseek(pdf_texts) is awaited on the
\* whole input as one batch.  It draws its key (lines 77-78) and its proxy
\* (line 121), enters the retry loop and starts the jitter sleep (line 127).
\* No semaphore is created and no wrapper stands around the call.
DirectStart(n) ==
    /\ phase' = "direct"
    /\ workload' = "parse"
    /\ nItems' = n
    /\ batch_size' = 0
    /\ max_concurrent' = 0
    /\ batches' = << Items(n) >>
    /\ GetNextApiKey(1, 0)
    /\ GetNextProxy(1, 0)
    /\ status'   = << "Dispatched" >>
    /\ inflight' = << FALSE >>
    /\ attempt'  = << 0 >>
    /\ requests' = << 0 >>
    /\ jitters'  = << 1 >>
    /\ waits'    = << << >> >>
    /\ outcome'  = << "none" >>
    /\ apiKey'   = << KeySelected(0) >>
    /\ proxy'    = << ProxySelected(0) >>
    /\ ret'      = << << >> >>
    /\ UNCHANGED << nKeys, nProxies, taskVars, semaphore, doneOrder, errorLog,
                    outVars, pureVars >>

ExtendedCall(n) ==
    /\ phase = "ready"
    /\ IF RoutesDirect(n)
       THEN DirectStart(n)
       ELSE Call("parse", n, DefaultBatchSize, DefaultMaxConcurrent)

\* The jitter sleep is over, the request is posted (lines 127-142).
DirectIssue ==
    /\ phase = "direct"
    /\ status[1] = "Dispatched"
    /\ ~inflight[1]
    /\ inflight' = [inflight EXCEPT ![1] = TRUE]
    /\ requests' = [requests EXCEPT ![1] = @ + 1]
    /\ UNCHANGED << phase, poolVars, taskVars, callVars, batches, semaphore,
                    status, attempt, jitters, waits, outcome, apiKey, proxy,
                    ret, doneOrder, errorLog, outVars, pureVars >>

\* A 200 response with a JSON object: the parsed object is returned to the
\* caller as it is (lines 155, 410), under the keys the service gave.
DirectOk(shape) ==
    /\ phase = "direct"
    /\ inflight[1]
    /\ phase' = "done"
    /\ outcome' = [outcome EXCEPT ![1] = shape]
    /\ status' = [status EXCEPT ![1] = "Succeeded"]
    /\ inflight' = [inflight EXCEPT ![1] = FALSE]
    /\ ret' = [ret EXCEPT ![1] = ParseReturn(batches[1], shape)]
    /\ result' = [j \in 1..Len(ParseReturn(batches[1], shape)) |->
                    [key |-> ParseReturn(batches[1], shape)[j].label,
                     label |-> ParseReturn(batches[1], shape)[j].label,
                     origin |-> ParseReturn(batches[1], shape)[j].origin]]
    /\ UNCHANGED << poolVars, taskVars, callVars, batches, semaphore, attempt,
                    requests, jitters, waits, apiKey, proxy, doneOrder,
                    errorLog, summary, pureVars >>

\* The exception of a failed attempt leaves the function (lines 167-169) and
\* the entry function: the caller gets the exception and no result.
DirectRaise ==
    /\ phase' = "raised"
    /\ status' = [status EXCEPT ![1] = "Failed"]
    /\ inflight' = [inflight EXCEPT ![1] = FALSE]

\* A 429 response (lines 157-161): the backoff sleep starts.
DirectThrottled ==
    /\ phase = "direct"
    /\ inflight[1]
    /\ outcome' = [outcome EXCEPT ![1] = Throttle]
    /\ status' = [status EXCEPT ![1] = "Throttled"]
    /\ inflight' = [inflight EXCEPT ![1] = FALSE]
    /\ waits' = [waits EXCEPT ![1] = Append(@, BackoffDelay(attempt[1]))]
    /\ UNCHANGED << phase, poolVars, taskVars, callVars, batches, semaphore,
                    attempt, requests, jitters, apiKey, proxy, ret, doneOrder,
                    errorLog, outVars, pureVars >>

\* Any other failure of the attempt (lines 153, 165).
DirectError(r) ==
    /\ phase = "direct"
    /\ inflight[1]
    /\ outcome' = [outcome EXCEPT ![1] = r]
    /\ DirectRaise
    /\ UNCHANGED << poolVars, taskVars, callVars, batches, semaphore, attempt,
                    requests, jitters, waits, apiKey, proxy, ret, doneOrder,
                    errorLog, outVars, pureVars >>

\* The backoff sleep is over: raise after the last attempt (lines 162-163),
\* else go round the loop into the next jitter sleep.
DirectBackoffElapsed ==
    /\ phase = "direct"
    /\ status[1] = "Throttled"
    /\ IF LastAttempt(attempt[1])
       THEN /\ DirectRaise
            /\ UNCHANGED << attempt, jitters >>
       ELSE /\ status' = [status EXCEPT ![1] = "Dispatched"]
            /\ attempt' = [attempt EXCEPT ![1] = @ + 1]
            /\ jitters' = [jitters EXCEPT ![1] = @ + 1]
            /\ UNCHANGED << phase, inflight >>
    /\ UNCHANGED << poolVars, taskVars, callVars, batches, semaphore, requests,
                    waits, outcome, apiKey, proxy, ret, doneOrder, errorLog,
                    outVars, pureVars >>

NextExtended ==
    \/ Startup
    \/ \E n \in 0..MaxExtendedItems : ExtendedCall(n)
    \/ DirectIssue
    \/ \E shape \in OkShapes : DirectOk(shape)
    \/ DirectThrottled
    \/ \E r \in ErrorResponses : DirectError(r)
    \/ DirectBackoffElapsed
    \/ Run

SpecExtended == Init /\ [][NextExtended]_vars

\* The planner of an orchestrated call on inputs of every length.
NextPlan ==
    \/ Startup
    \/ \E w \in {"parse", "match"}, n \in 0..MaxPlanItems,
          bs \in 1..MaxPlanBatch : Call(w, n, bs, 1)

SpecPlan == Init /\ [][NextPlan]_vars

\* ================================================================ claims
FailedSet    == { b \in Batches : status[b] = "Failed" }
SucceededSet == { b \in Batches : status[b] = "Succeeded" }

\* C1: within one orchestrated call, parsing or matching, never more than
\* max_concurrent batches are in the Dispatched state at once, whatever the
\* number of batches and the order in which requests complete.
C1_ConcurrencyBound ==
    Cardinality(DispatchedSet) <= max_concurrent

\* C1 witness: every slot is taken by a batch awaiting its response while
\* another batch is still queued behind the limiter.
C1_Witness ==
    /\ phase = "running"
    /\ max_concurrent = MaxConcurrent
    /\ Cardinality(DispatchedSet) = max_concurrent
    /\ \A b \in DispatchedSet : inflight[b]
    /\ \E b \in Batches : status[b] = "Queued"

\* C2 (as claimed): after a parsing call in which every succeeded batch was
\* answered with one entry per item, every returned record sits under the
\* key resume<i> of the input position i it describes, also when a batch
\* planned before it failed.
C2_OriginalIndexKept ==
    ( /\ phase = "done"
      /\ workload = "parse"
      /\ \A b \in SucceededSet : outcome[b] = "full" )
    => \A k \in 1..Len(result) : result[k].key = result[k].origin

\* C3 (as claimed): when batches have failed, the aggregator reports their
\* number: one of the figures it puts out at the end of the call is the
\* number of failed batches.
C3_FailedBatchCountReported ==
    (phase = "done" /\ FailedSet # {}) => Cardinality(FailedSet) \in Range(summary)

\* C3 (amended): the call returns the reduced record set alone.  The number
\* of failed batches is to be read only from the log: each wrapper logs one
\* error line for its failed batch, so the error lines number the failed
\* batches, and the summary line gives the number of records returned
\* (for parsing next to the number of input items).
C3_FailuresLoggedPerBatch ==
    /\ errorLog = Cardinality(FailedSet)
    /\ phase = "done" =>
          /\ summary[1] = Len(result)
          /\ workload = "parse" => summary = << Len(result), nItems >>
          /\ workload = "match" => Len(summary) = 1

\* C3 witness: three batches, the second failed, the others succeeded: one
\* error line, and a summary that does not show the figure 1.
C3_Witness ==
    /\ phase = "done"
    /\ Len(batches) = 3
    /\ status = << "Succeeded", "Failed", "Succeeded" >>
    /\ errorLog = 1
    /\ 1 \notin Range(summary)

\* The input positions whose entry the response of a succeeded batch held.
Delivered(b) ==
    IF outcome[b] = "short"
    THEN { batches[b][j] : j \in 1..(Len(batches[b]) - 1) }
    ELSE Range(batches[b])

\* C4: a failed batch fails alone.  A batch is Failed only by a failing
\* response of its own and Succeeded only by a 200 response of its own; when
\* the call has returned every batch was sent and has ended, the result
\* holds nothing of the items of a failed batch and, exactly once, every
\* record a succeeded batch delivered.
C4_FailureIsolated ==
    /\ \A b \in FailedSet : outcome[b] \in ErrorResponses \cup {Throttle}
    /\ \A b \in SucceededSet : outcome[b] \in OkShapes
    /\ phase = "done" =>
          /\ \A b \in Batches : status[b] \in Terminal /\ requests[b] >= 1
          /\ \A b \in FailedSet : \A k \in 1..Len(result) :
                result[k].origin \notin Range(batches[b])
          /\ \A b \in SucceededSet : \A i \in Delivered(b) :
                Cardinality({ k \in 1..Len(result) : result[k].origin = i }) = 1
          /\ \A k \in 1..Len(result) : result[k].origin # 0 =>
                \E b \in SucceededSet : result[k].origin \in Delivered(b)

\* C4 witness: the call has returned with a failed batch between two
\* succeeded ones, and the records of both are in the result.
C4_Witness ==
    /\ phase = "done"
    /\ Len(batches) = 3
    /\ status[1] = "Succeeded" /\ status[2] = "Failed" /\ status[3] = "Succeeded"
    /\ \E k \in 1..Len(result) : result[k].origin \in Range(batches[1])
    /\ \E k \in 1..Len(result) : result[k].origin \in Range(batches[3])

\* C5: a parsing batch whose attempts were all answered 429 has, once
\* Failed, issued exactly 3 requests and slept the backoff delays 10, 20, 30
\* in this order; while it is Throttled the delays so far are 10, 20, ...
C5_RetryBackoffSequence ==
    \A b \in Batches : workload = "parse" =>
        /\ (status[b] = "Failed" /\ outcome[b] = Throttle) =>
              /\ requests[b] = 3
              /\ waits[b] = << 10, 20, 30 >>
        /\ status[b] = "Throttled" =>
              /\ requests[b] = Len(waits[b])
              /\ waits[b] = SubSeq(<< 10, 20, 30 >>, 1, requests[b])

\* C5 witness: a parsing batch Failed after its third throttled response.
C5_Witness ==
    \E b \in Batches :
        /\ workload = "parse"
        /\ status[b] = "Failed"
        /\ outcome[b] = Throttle
        /\ requests[b] = RetryCount

\* C6 (as claimed): in both workloads a batch answered 429 before the retry
\* ceiling is reached is retried and not failed.
C6_ThrottledIsRetried ==
    \A b \in Batches :
        (outcome[b] = Throttle /\ requests[b] < RetryCount) => status[b] # "Failed"

\* C7: a parsing batch whose attempt ended in a non-429 error status, a
\* network error or content that is no JSON is Failed at once, on whichever
\* attempt: it has no request in flight and has issued one request per
\* attempt, the earlier ones all throttled, and none after the error.
C7_ErrorsFailWithoutRetry ==
    \A b \in Batches :
        (workload = "parse" /\ outcome[b] \in ErrorResponses) =>
            /\ status[b] = "Failed"
            /\ ~inflight[b]
            /\ requests[b] = attempt[b] + 1
            /\ Len(waits[b]) = attempt[b]

\* C7 witness: content that is no JSON on the second attempt, after a
\* throttled first one.
C7_Witness ==
    \E b \in Batches :
        /\ workload = "parse"
        /\ outcome[b] = "bad_json"
        /\ attempt[b] = 1
        /\ status[b] = "Failed"

\* n consecutive selections of a pool of n entries return every entry
\* once, and the selection after them returns the first of them again.
VisitsAllBeforeRepeat(hist, n) ==
    /\ \A i \in 1..(Len(hist) - n + 1) :
          { hist[j].entry : j \in i..(i + n - 1) } = 1..n
    /\ \A i \in 1..(Len(hist) - n) : hist[i + n].entry = hist[i].entry

\* C8: round-robin fairness of get_next_api_key, and of get_next_proxy for
\* a non-empty proxy pool, from every cursor position.
C8_RoundRobin ==
    /\ VisitsAllBeforeRepeat(keyHist, nKeys)
    /\ nProxies > 0 => VisitsAllBeforeRepeat(proxyHist, nProxies)

\* C8 witness: a pool of 3 keys selected from 4 times and a pool of 2
\* proxies selected from 3 times.
C8_Witness ==
    /\ nKeys = 3 /\ Len(keyHist) >= 4
    /\ nProxies = 2 /\ Len(proxyHist) >= 3

\* C9: with tasks of several calls selecting in any interleaving, the k-th
\* selection made on a pool returns entry (k - 1) mod N counted from the
\* cursor's start, and the cursor has advanced once per selection.
C9_SelectionAtomic ==
    /\ \A k \in 1..Len(keyHist) : keyHist[k].entry = ((k - 1) % nKeys) + 1
    /\ \A k \in 1..Len(proxyHist) : proxyHist[k].entry = ((k - 1) % nProxies) + 1
    /\ nKeys > 0 => keyCursor = Len(keyHist) % nKeys
    /\ nProxies > 0 => proxyCursor = Len(proxyHist) % nProxies

\* C9 witness: two tasks are under way at once and their selections
\* alternate: task 1, task 2, task 1.
C9_Witness ==
    /\ nKeys >= 2
    /\ \A t \in Tasks : taskPc[t] = "awaiting"
    /\ \E k \in 1..(Len(keyHist) - 2) :
          /\ keyHist[k].task = 1
          /\ keyHist[k + 1].task = 2
          /\ keyHist[k + 2].task = 1

\* C10 (as claimed): no batch is dispatched while the key pool or the
\* proxy pool is empty.
C10_NoDispatchWithAnEmptyPool ==
    (\E b \in Batches : status[b] = "Dispatched") => (nKeys > 0 /\ nProxies > 0)

\* C10 (amended): with an empty key pool start-up is fatal and nothing is
\* ever planned or dispatched; an empty proxy pool does not stop start-up,
\* and batches are then dispatched without a proxy.
C10_EmptyKeyPoolIsFatal ==
    /\ nKeys = 0 => (phase \in {"loading", "fatal"} /\ batches = << >>)
    /\ \A b \in Batches : status[b] = "Dispatched" =>
          /\ apiKey[b] \in 1..nKeys
          /\ nProxies = 0 => proxy[b] = NoProxy
          /\ nProxies > 0 => proxy[b] \in 1..nProxies

\* C10 witness: start-up has failed for want of a key although proxies
\* are configured.
C10_Witness ==
    /\ phase = "fatal"
    /\ nKeys = 0
    /\ nProxies > 0

\* ceil(n / d) for n >= 0, d >= 1.
CeilDiv(n, d) == (n + d - 1) \div d

Planned == phase \in {"running", "done"}

\* C11: the planner makes ceil(n / batch_size) batches; every batch but the
\* last holds batch_size items, the last between 1 and batch_size; 10 items
\* with batch_size 4 give sizes 4, 4, 2 and no item gives no batch.
C11_BatchCountAndSizes ==
    Planned =>
        /\ Len(batches) = CeilDiv(nItems, batch_size)
        /\ \A b \in 1..(Len(batches) - 1) : Len(batches[b]) = batch_size
        /\ Len(batches) > 0 =>
              /\ Len(batches[Len(batches)]) >= 1
              /\ Len(batches[Len(batches)]) <= batch_size
        /\ (nItems = 10 /\ batch_size = 4) =>
              [b \in 1..Len(batches) |-> Len(batches[b])] = << 4, 4, 2 >>
        /\ nItems = 0 => batches = << >>

\* C11 witness: 10 items planned with batch_size 4.
C11_Witness ==
    /\ Planned
    /\ nItems = 10
    /\ batch_size = 4
    /\ Len(batches) = 3

\* The input positions of all batches, in planning order.
RECURSIVE Flatten(_)
Flatten(ss) == IF ss = << >> THEN << >> ELSE Head(ss) \o Flatten(Tail(ss))

\* Every place << b, j >> of the plan: the j-th item of batch b.
Places == UNION { { << b, j >> : j \in 1..Len(batches[b]) } : b \in Batches }

\* C12: every input position is in exactly one batch at exactly one place,
\* and the batches put end to end are the input list.
C12_BatchesPartitionInput ==
    Planned =>
        /\ \A i \in 1..nItems :
              Cardinality({ p \in Places : batches[p[1]][p[2]] = i }) = 1
        /\ Flatten(batches) = Items(nItems)

\* C12 witness: an input that does not divide into full batches is planned
\* into several batches.
C12_Witness ==
    /\ Planned
    /\ nItems = 7
    /\ batch_size = 3
    /\ Len(batches) = 3

\* C13: for N input items an orchestrated call returns at most N records,
\* whatever the batches' outcomes and however many records a response holds.
C13_OutputCountAtMostN == phase = "done" => Len(result) <= nItems

\* What a record says of its source, without the key the aggregator gave it.
Stripped(recs) ==
    [j \in 1..Len(recs) |-> [label |-> recs[j].label, origin |-> recs[j].origin]]

OutOfOrderReturn ==
    \E k \in 1..Len(doneOrder), l \in 1..Len(doneOrder) :
        /\ k < l
        /\ doneOrder[k] > doneOrder[l]
        /\ ret[doneOrder[k]] # << >>
        /\ ret[doneOrder[l]] # << >>

\* C14: the result of a call is fixed by what each batch returned, taken in
\* planning order, whatever the order the batches returned in: the records of
\* an earlier-planned batch precede those of a later one, and the candidate
\* ids of a matching result rise in input order.
C14_ResultIgnoresCompletionOrder ==
    phase = "done" =>
        /\ workload = "parse" => Stripped(result) = Stripped(Flatten(ret))
        /\ workload = "match" => result = Flatten(ret)
        /\ \A k \in 1..Len(result), l \in 1..Len(result) :
              (k < l /\ result[k].origin # 0 /\ result[l].origin # 0)
                  => result[k].origin < result[l].origin
        /\ workload = "match" =>
              \A k \in 1..Len(result), l \in 1..Len(result) :
                  k < l => result[k].cand < result[l].cand

\* C14 witness: a call has returned whose later-planned batch returned its
\* records before an earlier-planned one did.
C14_Witness == phase = "done" /\ OutOfOrderReturn

\* Selections batch b has made on a pool.
Draws(hist, b) == Cardinality({ k \in 1..Len(hist) : hist[k].task = b })

\* C15: at every entry into Dispatched, the first and each one after a
\* throttle, the batch has drawn a key and a proxy and slept a jitter delay
\* for that attempt before its request goes out.
C15_DrawAndJitterAtEveryDispatch ==
    \A b \in Batches :
        status[b] = "Dispatched" =>
            /\ Draws(keyHist, b) = attempt[b] + 1
            /\ nProxies > 0 => Draws(proxyHist, b) = attempt[b] + 1
            /\ jitters[b] = attempt[b] + 1
            /\ requests[b] <= jitters[b]

Returned == phase = "returned"

\* Every emitted record pairs the i-th candidate's id with the response
\* entry labelled i, and no id is emitted twice.
PairedByLabel ==
    /\ \A r \in Range(output) :
          \E i \in 1..Len(candidates_data), e \in Range(batch_results) :
              /\ candidates_data[i] = r.cand
              /\ r.label = i
              /\ e.label = i
              /\ r.origin = e.origin
    /\ \A k \in 1..Len(output), l \in 1..Len(output) :
          k # l => output[k].cand # output[l].cand

\* C16 as stated: one MatchResult for each candidate of the batch, paired by
\* label, no id twice, the four scores in [0,100].
C16_OneMatchResultPerCandidate ==
    Returned =>
        /\ Len(output) = Len(candidates_data)
        /\ PairedByLabel
        /\ \A r \in Range(output) :
              \A f \in DOMAIN r.scores \cap ScoreKeys : r.scores[f] \in 0..100

\* C16 amended: at most one MatchResult per candidate: the i-th candidate
\* has one exactly when the response has an entry labelled candidate_<i>,
\* paired with that entry and no other; no id is emitted twice; each of the
\* four scores an emitted entry has lies in [0,100], a value outside being
\* moved to the nearer end.
C16_MatchResultPerLabelledCandidate ==
    Returned =>
        /\ PairedByLabel
        /\ \A i \in 1..Len(candidates_data) :
              (\E r \in Range(output) : r.cand = candidates_data[i])
                  <=> (\E e \in Range(batch_results) : e.label = i)
        /\ \A r \in Range(output), e \in Range(batch_results) :
              e.label = r.label =>
                  /\ DOMAIN r.scores = DOMAIN e.scores
                  /\ \A f \in DOMAIN r.scores \cap ScoreKeys :
                        /\ r.scores[f] \in 0..100
                        /\ e.scores[f] \in 0..100 => r.scores[f] = e.scores[f]
                        /\ e.scores[f] > 100 => r.scores[f] = 100
                        /\ e.scores[f] < 0 => r.scores[f] = 0

\* C16 witness: a batch of two whose response lacks candidate_2, has an
\* entry for no candidate and gives candidate_1 a score above 100.
C16_Witness ==
    /\ Returned
    /\ Len(candidates_data) = 2
    /\ Len(output) = 1
    /\ Len(batch_results) = 2
    /\ batch_results[1].label = 1
    /\ batch_results[2].label = 3
    /\ batch_results[1].scores = [f \in ScoreKeys |-> 150]
    /\ output[1].scores = [f \in ScoreKeys |-> 100]

\* C17: two calls of the scoring function with the same candidate and the
\* same criteria return the same result.
C17_SameArgumentsSameResult ==
    \A i \in 1..Len(scored), j \in 1..Len(scored) : scored[i] = scored[j]

\* The weighted subscores of result r in hundredths, as an exact integer.
TotalOf(r) ==
    r.experience_score * vacancy.weight_experience
    + r.technical_skills_score * vacancy.weight_technical_skills
    + r.soft_skills_score * vacancy.weight_soft_skills
    + r.language_score * vacancy.weight_languages

AgePenalised(r) == r.age_score = 0
EducationPenalised(r) == r.education_score < 50 /\ vacancy.education_required # 0

\* C18 as stated: the overall score is the rounded weighted sum, times 0.5
\* under the age penalty, times 0.7 under the education penalty, clamped to
\* [0,100] (all in hundredths here).
C18_RoundedWeightedOverall ==
    \A i \in 1..Len(scored) :
        LET r == scored[i]
            rounded == (TotalOf(r) + 50) \div 100
        IN  100 * r.overall_score
              = Max(0, Min(10000,
                    rounded * (IF AgePenalised(r) THEN 5 ELSE 10)
                            * (IF EducationPenalised(r) THEN 7 ELSE 10)))

\* The weighted sum of result r as line 311 cuts it.
CutSumOf(r) ==
    WeightedSum(r.experience_score, r.technical_skills_score,
                r.soft_skills_score, r.language_score, vacancy)

C20_OverallInRange ==
    \A i \in 1..Len(scored) : scored[i].overall_score \in 0..100

\* C20 witness: weights adding up to 240 whose weighted sum is above 100.
C20_Witness ==
    \E i \in 1..Len(scored) :
        /\ vacancy.weight_experience + vacancy.weight_technical_skills
             + vacancy.weight_soft_skills + vacancy.weight_languages = 240
        /\ CutSumOf(scored[i]) > 100
        /\ ~AgePenalised(scored[i])
        /\ ~EducationPenalised(scored[i])
        /\ scored[i].overall_score = 100

\* The arguments and the result of the calculator call made, if it was a
\* call of fn.
Called(fn) == phase = "part" /\ part.fn = fn

\* C21: calculate_experience_score(e, min, max) is floor(e/min*100) when
\* e < min and min > 0, 100 when e < min and min = 0, 100 when e >= min and
\* there is no max, 100 when min <= e <= max, and
\* max(80, 100 - min(5*(e-max), 20)) when e > max; (2,4,None) gives 50,
\* (5,3,10) gives 100, (12,3,10) gives 90.
C21_ExperienceScoreByCases ==
    Called("experience") =>
        LET e  == part.args[1]
            mn == part.args[2]
            mx == part.args[3]
        IN  /\ part.out =
                  IF e < mn THEN (IF mn > 0 THEN (e * 100) \div mn ELSE 100)
                  ELSE IF mx = NoneInt THEN 100
                  ELSE IF e <= mx THEN 100
                  ELSE Max(80, 100 - Min(5 * (e - mx), 20))
            /\ part.args = << 2, 4, NoneInt >> => part.out = 50
            /\ part.args = << 5, 3, 10 >> => part.out = 100
            /\ part.args = << 12, 3, 10 >> => part.out = 90

\* The candidate holds skill s: it is among the candidate's skills when case
\* and blanks at the ends are set aside.
Holds(candidate, s) ==
    \E j \in 1..Len(candidate) :
        StrStrip(StrLower(candidate[j])) = StrStrip(StrLower(s))

\* The skills of list `wanted` the candidate holds (held = TRUE) or does not.
SkillsOf(wanted, candidate, held) ==
    { wanted[i] : i \in { k \in 1..Len(wanted) : Holds(candidate, wanted[k]) = held } }

\* C22: calculate_technical_skills_score returns min(100, base + bonus), base
\* the floor of 100 times the share of the required skills the candidate
\* holds (100 with none required), bonus the floor of 20 times the share of
\* the optional skills held (0 with none); the matched list is the required
\* and optional skills held, the missing list the required skills not held,
\* and every required skill is in exactly one of the two; 2 of 3 required
\* held and the one optional skill not held give 66.
C22_TechnicalScoreAndLists ==
    Called("technical") =>
        LET c == part.args[1]
            r == part.args[2]
            o == part.args[3]
            base  == IF Len(r) = 0 THEN 100
                     ELSE (Cardinality(SkillsOf(r, c, TRUE)) * 100) \div Len(r)
            bonus == IF Len(o) = 0 THEN 0
                     ELSE (Cardinality(SkillsOf(o, c, TRUE)) * 20) \div Len(o)
        IN  /\ part.out.score = Min(100, base + bonus)
            /\ Range(part.out.matched) = SkillsOf(r, c, TRUE) \cup SkillsOf(o, c, TRUE)
            /\ Range(part.out.missing) = SkillsOf(r, c, FALSE)
            /\ \A i \in 1..Len(r) :
                   (r[i] \in Range(part.out.matched)) # (r[i] \in Range(part.out.missing))
            /\ ( /\ r = << "Python", "FastAPI", "PostgreSQL" >>
                 /\ o = << "Docker" >>
                 /\ SkillsOf(r, c, TRUE) = {"Python", "FastAPI"}
                 /\ SkillsOf(o, c, TRUE) = {} ) => part.out.score = 66

\* The place of a level on the scale A1 < A2 < B1 < B2 < C1 < C2, 0 for a
\* text that is no level; the case of the letter is set aside.
LevelRank(level) ==
    LET l == StrUpper(level)
    IN  IF l = "A1" THEN 1 ELSE IF l = "A2" THEN 2 ELSE IF l = "B1" THEN 3
        ELSE IF l = "B2" THEN 4 ELSE IF l = "C1" THEN 5 ELSE IF l = "C2" THEN 6
        ELSE 0

\* The candidate's entry names the required language: one name occurs in the
\* other, case and blanks at the ends set aside.
ListsLanguage(entry, req) ==
    LET a == StrStrip(StrLower(entry.language))
        b == StrStrip(StrLower(req.language))
    IN  StrContains(a, b) \/ StrContains(b, a)

\* The candidate lists the required language at a level at or above the
\* minimum (an entry without a level counts as A1).
Satisfies(candidate, req) ==
    \E j \in 1..Len(candidate) :
        /\ ListsLanguage(candidate[j], req)
        /\ LevelRank(req.min_level) > 0
        /\ LevelRank(IF "level" \in DOMAIN candidate[j]
                     THEN candidate[j].level ELSE "A1") >= LevelRank(req.min_level)

SatisfiedCount(candidate, required) ==
    Cardinality({ i \in 1..Len(required) : Satisfies(candidate, required[i]) })

\* C23: a required language is satisfied exactly when the candidate lists it
\* at a level at or above the minimum on the scale A1 < A2 < B1 < B2 < C1 < C2;
\* each required language is counted once at most, however many entries of
\* the candidate match it; the score is the floor of 100 times the share of
\* the required languages satisfied, 100 when none is required.
C23_LanguageScore ==
    Called("language") =>
        LET c == part.args[1]
            r == part.args[2]
        IN  /\ Len(part.out.matched) = SatisfiedCount(c, r)
            /\ part.out.score = IF Len(r) = 0 THEN 100
                                ELSE (SatisfiedCount(c, r) * 100) \div Len(r)

\* The keywords of a required level, and the keywords of higher education.
DegreeWords(level) ==
    IF level = "Bakalavr" THEN {"bakalavr", "bachelor"}
    ELSE IF level = "Magistr" THEN {"magistr", "master"}
    ELSE IF level = "Specialist" THEN {"specialist"}
    ELSE {}

HigherWords == {"universitet", "institut", "university", "vysshee"}

\* One of the words occurs in the text, case set aside.
Occurs(words, text) == \E w \in words : StrContains(StrLower(text), w)

\* C24: calculate_education_score is 100 when education is not required; 0
\* when it is required and the candidate's text is empty; with a level
\* required, 100 if a keyword of the level occurs in the text, else 70 if a
\* keyword of higher education occurs, else 30; with no level required, 100
\* if a keyword of higher education occurs, else 30.  It is always one of
\* 0, 30, 70, 100.
C24_EducationScoreByCases ==
    Called("education") =>
        LET text     == part.args[1]
            required == part.args[2] # 0
            level    == part.args[3]
        IN  /\ part.out =
                  IF ~required THEN 100
                  ELSE IF text = "" THEN 0
                  ELSE IF level # ""
                  THEN (IF Occurs(DegreeWords(level), text) THEN 100
                        ELSE IF Occurs(HigherWords, text) THEN 70 ELSE 30)
                  ELSE (IF Occurs(HigherWords, text) THEN 100 ELSE 30)
            /\ part.out \in {0, 30, 70, 100}

\* C24 witness: a level is required, the text names another level and, in
\* upper case, a keyword of higher education: 70.
C24_Witness ==
    /\ Called("education")
    /\ part.args = << "BACHELOR of Science, Stanford University", 1, "Magistr" >>
    /\ part.out = 70

\* day1 is day2 or comes before it.
NotAfter(day1, day2) ==
    \/ day1.year < day2.year
    \/ day1.year = day2.year /\ day1.month < day2.month
    \/ day1.year = day2.year /\ day1.month = day2.month /\ day1.day <= day2.day

\* The age on a day: the birthdays had up to and on that day.
AgeAsOf(birth_date, day) ==
    Cardinality({ y \in (birth_date.year + 1)..day.year :
                    NotAfter(Date(y, birth_date.month, birth_date.day), day) })

\* C25: calculate_age_score is 100 when neither bound is set, with or without
\* a birth date; 0 when a bound is set and the birth date is missing;
\* otherwise 100 if the age as of the evaluation date meets every bound set,
\* the bounds included, and 0 if it breaks one.  It is never anything but 0
\* or 100.
C25_AgeScoreByCases ==
    Called("age") =>
        LET birth_date == part.args[1]
            min_age    == part.args[2]
            max_age    == part.args[3]
            age        == AgeAsOf(birth_date, part.args[4])
        IN  /\ part.out =
                  IF min_age = NoneInt /\ max_age = NoneInt THEN 100
                  ELSE IF birth_date = NoDate THEN 0
                  ELSE IF /\ (min_age # NoneInt => age >= min_age)
                          /\ (max_age # NoneInt => age <= max_age)
                  THEN 100 ELSE 0
            /\ part.out \in {0, 100}

\* C25 witness: the candidate turns 45 on the evaluation date and the
\* maximum is 45: the maximum is included.
C25_Witness ==
    /\ Called("age")
    /\ part.args[1].year = 1981
    /\ part.args[1].month = part.args[4].month
    /\ part.args[1].day = part.args[4].day
    /\ part.args[3] = 45
    /\ part.out = 100

\* The moves of a BatchJob.
AllowedMoves ==
    { << "Queued", "Dispatched" >>, << "Dispatched", "Succeeded" >>,
      << "Dispatched", "Throttled" >>, << "Dispatched", "Failed" >>,
      << "Throttled", "Dispatched" >>, << "Throttled", "Failed" >> }

\* In this step every job keeps its state or makes an allowed move, and a
\* job leaves Throttled for Failed only with the ceiling exhausted.
MovesAllowed ==
    \A b \in (DOMAIN status) \cap (DOMAIN status') :
        status'[b] # status[b] =>
            /\ << status[b], status'[b] >> \in AllowedMoves
            /\ (status[b] = "Throttled" /\ status'[b] = "Failed")
                   => Len(waits[b]) = RetryCount
            /\ (status[b] = "Throttled" /\ status'[b] = "Dispatched")
                   => Len(waits[b]) < RetryCount

\* What the service delivered to a succeeded job.
Payload(b) ==
    IF workload = "parse" THEN ParseReturn(batches[b], outcome[b])
    ELSE MatchReturn(batches[b], outcome[b])

RECURSIVE SumLen(_, _)
SumLen(rets, i) == IF i > Len(rets) THEN 0 ELSE Len(rets[i]) + SumLen(rets, i + 1)

\* When the call has returned every job has ended, a succeeded job has
\* handed over its payload, a failed one nothing, and the aggregate holds as
\* many records as the jobs handed over.
FoldedOnce ==
    phase = "done" =>
        /\ \A b \in Batches :
              \/ status[b] = "Succeeded" /\ outcome[b] \in OkShapes /\ ret[b] = Payload(b)
              \/ status[b] = "Failed" /\ ret[b] = << >>
        /\ Len(result) = SumLen(ret, 1)
        /\ \A b \in Batches :
              Cardinality({ k \in 1..Len(doneOrder) : doneOrder[k] = b }) = 1

\* C26: a BatchJob moves only Queued -> Dispatched, Dispatched -> Succeeded,
\* Dispatched -> Throttled, Dispatched -> Failed, Throttled -> Dispatched
\* (retry) and Throttled -> Failed (ceiling exhausted); it never leaves
\* Succeeded or Failed; each job is folded into the aggregate exactly once,
\* as a success with its payload or as a failure without one.
C26_JobLifecycle == [][MovesAllowed]_vars /\ []FoldedOnce

\* C26 witness: the call has returned; one job was throttled, retried and
\* succeeded, another was throttled up to the ceiling and failed.
C26_Witness ==
    /\ phase = "done"
    /\ \E b \in SucceededSet : Len(waits[b]) >= 1 /\ ret[b] # << >>
    /\ \E b \in FailedSet : Len(waits[b]) = RetryCount

\* C27: with every request answered and every delay over in the end, every
\* submitted batch, one queued behind a full limiter too, comes to Succeeded
\* or Failed, a queued batch is admitted, and the orchestrating call
\* returns; once every batch has ended, on either outcome, every slot of
\* the limiter is free again.
C27_EveryBatchEnds ==
    /\ \A b \in 1..MaxItems :
          /\ (phase = "running" /\ b \in Batches)
                ~> (b \in Batches /\ status[b] \in Terminal)
          /\ (phase = "running" /\ b \in Batches /\ status[b] = "Queued")
                ~> (b \in Batches /\ status[b] # "Queued")
    /\ (phase = "running") ~> (phase = "done")
    /\ []((\A b \in Batches : status[b] \in Terminal)
             => semaphore = max_concurrent)

\* C27 witness: a call with more batches than slots has returned, a batch
\* that had to queue among the ended ones, with both outcomes.
C27_Witness ==
    /\ phase = "done"
    /\ Len(batches) > max_concurrent
    /\ FailedSet # {}
    /\ SucceededSet # {}
    /\ semaphore = max_concurrent

\* A step of the parsing orchestrator in which a queued batch is admitted
\* finds a slot free and, for a batch beyond the first max_concurrent ones,
\* finds as many batches ended as stood before it in excess of the slots.
AdmittedOnlyIntoFreedSlot ==
    (phase = "running" /\ workload = "parse") =>
        \A b \in (DOMAIN status) \cap (DOMAIN status') :
            (status[b] = "Queued" /\ status'[b] # "Queued") =>
                /\ Cardinality(Admitted) < max_concurrent
                /\ Cardinality(FailedSet \cup SucceededSet) >= b - max_concurrent
                /\ b > max_concurrent => FailedSet \cup SucceededSet # {}

\* C28: in parse_resumes_with_deepseek_parallel a batch holds its slot of
\* the limiter through the jitter delay and through every backoff wait: the
\* batches Dispatched or Throttled are never more than max_concurrent, the
\* free slots are max_concurrent less their number, and a queued batch is
\* admitted only into a slot that is free, which behind a full limiter means
\* that an admitted batch has reached Succeeded or Failed.
C28_SlotHeldThroughWaits ==
    /\ [](workload = "parse" =>
            /\ Cardinality(Admitted) <= max_concurrent
            /\ semaphore = max_concurrent - Cardinality(Admitted))
    /\ [][AdmittedOnlyIntoFreedSlot]_vars

\* C28 witness: every slot is held, one by a batch in its backoff wait and
\* one by a batch in its jitter delay, and a batch is queued behind them.
C28_Witness ==
    /\ phase = "running"
    /\ workload = "parse"
    /\ Cardinality(Admitted) = max_concurrent
    /\ \E b \in Batches : status[b] = "Throttled"
    /\ \E b \in Batches : status[b] = "Dispatched" /\ ~inflight[b]
    /\ \E b \in Batches : status[b] = "Queued"

\* In this step a parsing batch that posts a request posts one, and has
\* neither been answered successfully nor failed.
RequestsOnlyWhileOpen ==
    workload = "parse" =>
        \A b \in (DOMAIN requests) \cap (DOMAIN requests') :
            requests'[b] # requests[b] =>
                /\ requests'[b] = requests[b] + 1
                /\ status[b] \notin Terminal
                /\ outcome[b] \notin OkShapes

\* C29: whatever the service answers, one call of
\* parse_resume_batch_with_deepseek posts at most retry_count requests, and
\* none after a successful answer or after the batch has failed.
C29_RequestsWithinCeiling ==
    /\ [](workload = "parse" =>
            \A b \in Batches :
                /\ requests[b] <= RetryCount
                /\ status[b] \in Terminal => ~inflight[b])
    /\ [][RequestsOnlyWhileOpen]_vars

\* C29 witness: a batch answered 429 on every attempt but the last has
\* succeeded with its retry_count-th request, and the call has returned.
C29_Witness ==
    /\ phase = "done"
    /\ workload = "parse"
    /\ \E b \in SucceededSet :
          /\ requests[b] = RetryCount
          /\ Len(waits[b]) = RetryCount - 1


\* The direct route: the whole input is one batch, dispatched with no
\* limiter and no wrapper around it.
OnDirectRoute ==
    /\ Len(batches) = 1
    /\ batches[1] = Items(nItems)
    /\ max_concurrent = 0
    /\ semaphore = 0
    /\ errorLog = 0
    /\ doneOrder = << >>
    /\ phase # "running"
    /\ status[1] = "Failed" <=> phase = "raised"
    /\ status[1] = "Succeeded" <=> phase = "done"
    /\ phase \in {"done", "raised"} => requests[1] >= 1
    /\ phase = "raised" => result = << >> /\ ret[1] = << >>
    /\ phase = "done" =>
          /\ Len(result) = Len(Payload(1))
          /\ \A j \in 1..Len(result) : result[j].origin = Payload(1)[j].origin

\* The orchestrated route: batches of the default size under a limiter of
\* the default width; a failed batch only shortens the aggregate.
OnParallelRoute ==
    /\ phase \in {"running", "done"}
    /\ batch_size = 4
    /\ max_concurrent = 3
    /\ Len(batches) = (nItems + 3) \div 4
    /\ Cardinality(Admitted) <= max_concurrent
    /\ semaphore = max_concurrent - Cardinality(Admitted)
    /\ phase = "done" =>
          /\ \A b \in Batches :
                \/ status[b] = "Succeeded" /\ ret[b] = Payload(b)
                \/ status[b] = "Failed" /\ ret[b] = << >>
          /\ Len(result) = SumLen(ret, 1)

\* C30: parse_resumes_with_deepseek_extended routes by input size.  More
\* than 4 texts go to the orchestrator, governed by its limiter, and no batch
\* failure reaches the caller.  At most 4 texts, an empty list included, are
\* dispatched directly as one batch outside any limiter; a request is issued
\* even for the empty list, and a failure of the batch is raised to the
\* caller instead of yielding a reduced result.
C30_RoutesByInputSize ==
    phase \in {"direct", "raised", "running", "done"} =>
        IF nItems <= 4 THEN OnDirectRoute ELSE OnParallelRoute

\* C30 witness: the empty list was dispatched directly, throttled on every
\* attempt, and the failure was raised to the caller.
C30_Witness ==
    /\ phase = "raised"
    /\ nItems = 0
    /\ requests[1] = RetryCount
    /\ outcome[1] = Throttle

====
